---------------------------- MODULE Spec2Model ----------------------------
(***************************************************************************)
(* Connection lifecycle and dispatch core of the RUDP transport:           *)
(* ConnectionManager (connection set, socket registry, datagram routing)   *)
(* and Transport (callbacks, bootstrap, rendezvous connect, close).        *)
(*                                                                         *)
(* Sources: src/src/maidsafe/rudp/connection_manager.cc and                *)
(*          src/src/maidsafe/rudp/transport.cc.                            *)
(* Connection, Socket and Multiplexer are not part of the sources; the     *)
(* steps that stand for them (handshake outcome, closure report, peer      *)
(* endpoint update) follow the specification text and are marked so.       *)
(***************************************************************************)
EXTENDS Integers, Sequences, FiniteSets, TLC

---------------------------------------------------------------------------
(* Bounds of the model *)

MaxConns == 2

MaxSocketId == 3

MaxPort == 2

MaxCandidates == 2

MaxMsgs == 1

MaxCloseCalls == 2

MaxConnectCalls == 2

MaxRequests == 2

---------------------------------------------------------------------------
(* Data domains *)

\* NodeId(): the default constructed id, for which IsValid() is false.
InvalidNodeId == 0

\* kThisNodeId_, the id of the local node.
kThisNodeId == 1

PeerIds == {2, 3}

NodeIds == {InvalidNodeId, kThisNodeId} \cup PeerIds

NodeIdIsValid(id) == id # InvalidNodeId

PublicAddrs == {1}

PrivateAddrs == {2}

Ports == 1..MaxPort

\* Endpoint(): the null endpoint.
NullEndpoint == [addr |-> 0, port |-> 0]

Ep(a, p) == [addr |-> a, port |-> p]

Endpoints == {NullEndpoint} \cup {Ep(a, p) : a \in PublicAddrs \cup PrivateAddrs, p \in Ports}

IsValid(ep) == ep.addr # 0 /\ ep.port # 0

OnPrivateNetwork(ep) == ep.addr \in PrivateAddrs

ConnIds == 1..MaxConns

SocketIds == 1..MaxSocketId

\* The values RandomUint32() can return, cut down to a small range.
RandomUint32 == 0..MaxSocketId

\* kMaxConnections(), the cap on normal connections, cut down from 50 so that
\* the connections of the model can exceed it.
kMaxConnections == 1

Reasons == {"Normal", "BootstrapAndDrop", "Ping"}

\* A Connection object that has not been constructed yet.
NoConn == [state |-> "Absent", peer |-> InvalidNodeId, ep |-> NullEndpoint,
           connected |-> FALSE, open |-> FALSE, id |-> 0, via |-> "none",
           lifespan |-> "zero", natdet |-> NullEndpoint, call |-> 0, guessed |-> 0]

---------------------------------------------------------------------------
VARIABLES
  conn,                  \* ConnIds -> Connection object (with its Socket's fields)
  connections_,          \* ConnectionManager::connections_
  sockets_,              \* ConnectionManager::sockets_ : socket id -> Socket
  on_message_,           \* Transport callback slots (TRUE = set)
  on_connection_added_,
  on_connection_lost_,
  mux,                   \* Multiplexer: open, and its dispatcher's connection manager
  connection_manager_,   \* Transport::connection_manager_ is set
  nat_type_,             \* Transport::nat_type_
  strand,                \* handlers posted to Transport::strand_, in order
  events,                \* per peer id: the callbacks the user has seen
  boot,                  \* progress of Transport::Bootstrap
  calls,                 \* Transport::Connect calls and their handler invocations
  closeCalls,            \* number of Transport::Close calls made
  requests,              \* the CloseConnection and Send calls made, with their outcomes
  mutex_,                \* the calls the last operation made while it held mutex_
  last                   \* the operation that ran last, with its result

vars == <<conn, connections_, sockets_, on_message_, on_connection_added_,
          on_connection_lost_, mux, connection_manager_, nat_type_, strand, events,
          boot, calls, closeCalls, requests, mutex_, last>>

slots == <<on_message_, on_connection_added_, on_connection_lost_>>

\* The record kept of the last operation: its name, arguments and result.
Op(name) == [op |-> name, conn |-> 0, id |-> 0, peer |-> InvalidNodeId, res |-> "",
             sock |-> 0, upd |-> <<>>, hpf |-> FALSE,
             sender |-> NullEndpoint, reason |-> "", peer_endpoint |-> NullEndpoint]


---------------------------------------------------------------------------
(* The handlers below are written as functions from a state record to a    *)
(* state record, so that a handler can call another one; an action applies *)
(* one handler to the current state.  Field ok turns FALSE when a handler  *)
(* needs something the bounds of the model cannot supply.                  *)

Cur == [conn |-> conn, connections_ |-> connections_, sockets_ |-> sockets_,
        on_message_ |-> on_message_, on_connection_added_ |-> on_connection_added_,
        on_connection_lost_ |-> on_connection_lost_, mux |-> mux,
        connection_manager_ |-> connection_manager_, nat_type_ |-> nat_type_,
        strand |-> strand, events |-> events, boot |-> boot, calls |-> calls,
        closeCalls |-> closeCalls, requests |-> requests, mutex_ |-> <<>>, ok |-> TRUE]

Becomes(s, l) ==
  /\ s.ok
  /\ conn' = s.conn
  /\ connections_' = s.connections_
  /\ sockets_' = s.sockets_
  /\ on_message_' = s.on_message_
  /\ on_connection_added_' = s.on_connection_added_
  /\ on_connection_lost_' = s.on_connection_lost_
  /\ mux' = s.mux
  /\ connection_manager_' = s.connection_manager_
  /\ nat_type_' = s.nat_type_
  /\ strand' = s.strand
  /\ events' = s.events
  /\ boot' = s.boot
  /\ calls' = s.calls
  /\ closeCalls' = s.closeCalls
  /\ requests' = s.requests
  /\ mutex_' = s.mutex_
  /\ last' = l

Fail(s) == [s EXCEPT !.ok = FALSE]

\* Connections constructed and connections closed between two states.
Started(s, t) == {c \in ConnIds : s.conn[c].state = "Absent" /\ t.conn[c].state # "Absent"}

---------------------------------------------------------------------------
(* Socket registry: ConnectionManager::sockets_ *)

RegIds(s) == {i \in SocketIds : s.sockets_[i] # 0}

\* The condition of AddSocket's while loop: draw again.
AddSocketRetryNoUnique(s, id) == id = 0

AddSocketRetry(s, id) == id = 0 \/ s.sockets_[id] # 0

\* AddSocket with id the draw on which the loop ends; the Socket keeps the id returned.
AddSocket(s, socket, id) ==
  [s EXCEPT !.sockets_ = [i \in SocketIds |-> IF i = id THEN socket ELSE s.sockets_[i]],
            !.conn[socket].id = id]

RemoveSocket(s, id) ==
  IF id # 0 THEN [s EXCEPT !.sockets_ = [i \in SocketIds |-> IF i = id THEN 0 ELSE s.sockets_[i]]]
  ELSE s

\* sockets_.find(socket_id), the branch of GetSocket for a packet bound to a socket.
FindSocket(s, socket_id) ==
  IF RegIds(s) = {} THEN 0
  ELSE IF socket_id \in RegIds(s) THEN s.sockets_[socket_id] ELSE 0

---------------------------------------------------------------------------
(* Connection set: ConnectionManager::connections_ *)

IsNormal(state) == state \in {"Permanent", "Unvalidated", "Bootstrapping"}

FindConnection(s, peer_id) == {c \in s.connections_ : s.conn[c].peer = peer_id}

\* An iterator the code takes from FindConnection: the match picked, 0 for end().
Found(s, peer_id, pick) ==
  IF FindConnection(s, peer_id) = {} THEN pick = 0 ELSE pick \in FindConnection(s, peer_id)

\* The calls made between boost::mutex::scoped_lock lock(mutex_) and the release
\* of the lock, added to those the operation has made under it so far.
UnderMutex(s, made) == [s EXCEPT !.mutex_ = @ \o made]

\* ConnectionManager::AddConnection returns a bool: false for a connection that is
\* not normal (read by Transport::AddConnection as kInvalidConnection), else the
\* result of the insertion into connections_, a set of ConnectionPtr.
CM_AddConnection(s, connection) ==
  IF IsNormal(s.conn[connection].state)
  THEN [st |-> UnderMutex([s EXCEPT !.connections_ = @ \cup {connection}],
                          <<"IsNormal", "connections_.insert">>),
        result |-> "kSuccess"]
  ELSE [st |-> UnderMutex(s, <<"IsNormal">>), result |-> "kInvalidConnection"]

\* ConnectionManager::RemoveConnection
CM_RemoveConnection(s, connection) ==
  UnderMutex([s EXCEPT !.connections_ = @ \ {connection}], <<"IsNormal", "connections_.erase">>)

---------------------------------------------------------------------------
(* Callbacks to the user *)

Event(cb, c, temporary, timed_out) ==
  [cb |-> cb, conn |-> c, temporary |-> temporary, timed_out |-> timed_out]

Fire(s, peer_id, e) == [s EXCEPT !.events[peer_id] = Append(@, e)]

\* Transport::RemoveConnection
Transport_RemoveConnection(s, connection, timed_out) ==
  IF s.conn[connection].state # "Duplicate"
  THEN IF s.on_connection_lost_
       THEN Fire(s, s.conn[connection].peer,
                 Event("lost", connection, s.conn[connection].state = "Temporary", timed_out))
       ELSE s
  ELSE s

\* A Connection ends: its Socket leaves the registry.
Destroy(s, c) ==
  RemoveSocket([s EXCEPT !.conn[c].open = FALSE, !.conn[c].connected = FALSE, !.conn[c].id = 0],
               s.conn[c].id)

\* Connection::Close and the closure it reports: a normal connection leaves the
\* set, and the close handler (DefaultOnCloseHandler) calls
\* Transport::RemoveConnection.  A closed connection ignores a second Close.
DoClose(s, c, timed_out) ==
  IF ~s.conn[c].open THEN s
  ELSE LET s1 == Destroy(s, c)
           s2 == IF IsNormal(s.conn[c].state) /\ c \in s1.connections_
                 THEN CM_RemoveConnection(s1, c) ELSE s1
       IN Transport_RemoveConnection(s2, c, timed_out)

\* Transport::AddConnection
Transport_AddConnection(s, connection) ==
  LET state == s.conn[connection].state
      r == CM_AddConnection(s, connection)
      announce(t) ==
        IF t.on_connection_added_
        THEN Fire(t, t.conn[connection].peer,
                  Event("added", connection, state = "Temporary", FALSE))
        ELSE t
  IN IF state # "Temporary"
     THEN IF r.result = "kInvalidConnection" THEN DoClose(r.st, connection, FALSE)
          ELSE IF r.result = "kConnectionAlreadyExists" THEN r.st
          ELSE announce(r.st)
     ELSE announce(s)

\* The result ConnectionManager::AddConnection gives Transport::AddConnection.
AddConnectionResult(s, connection) ==
  IF s.conn[connection].state = "Temporary" THEN "none"
  ELSE CM_AddConnection(s, connection).result

\* DefaultOnReceiveHandler
DefaultOnReceiveHandler(s, c) ==
  IF s.on_message_ THEN Fire(s, s.conn[c].peer, Event("message", c, FALSE, FALSE)) ELSE s


---------------------------------------------------------------------------
(* Connections *)

AbsentConns(s) == {c \in ConnIds : s.conn[c].state = "Absent"}

FreshConn(s) == CHOOSE c \in AbsentConns(s) : \A d \in AbsentConns(s) : c <= d

\* The state a Connection takes when its handshake completes, by its lifespan.
StateOnConnect(lifespan) ==
  CASE lifespan = "zero" -> "Temporary"
    [] lifespan = "bootstrap_connection_lifespan" -> "Bootstrapping"
    [] OTHER -> "Unvalidated"

\* ConnectionManager::Connect: a Connection is constructed (its Socket registered
\* under the id drawn) and starts its handshake with the peer.
Connect(s, peer_id, peer_endpoint, lifespan, via, call, id) ==
  IF AbsentConns(s) = {} \/ AddSocketRetry(s, id) THEN Fail(s)
  ELSE LET c == FreshConn(s)
       IN AddSocket([s EXCEPT !.conn[c] =
                       [state |-> "Pending", peer |-> peer_id, ep |-> peer_endpoint,
                        connected |-> FALSE, open |-> TRUE, id |-> 0, via |-> via,
                        lifespan |-> lifespan, natdet |-> NullEndpoint, call |-> call,
                        guessed |-> 0]],
                    c, id)

\* Socket::UpdatePeerEndpoint
UpdatePeerEndpoint(s, c, endpoint) ==
  [s EXCEPT !.conn[c].ep = endpoint, !.conn[c].guessed = s.conn[c].ep.port]

---------------------------------------------------------------------------
(* Datagram routing *)

Packet(decodes, dest, hsdecodes, reason, node_id) ==
  [decodes |-> decodes, dest |-> dest, hsdecodes |-> hsdecodes, reason |-> reason,
   node_id |-> node_id]

\* ConnectionManager::HandlePingFrom; pick is the iterator FindConnection returns.
HandlePingFromNoChecks(s, handshake_packet, endpoint, pick, id) ==
  LET bootstrap_and_drop == handshake_packet.reason = "BootstrapAndDrop"
      joining_connection == IF pick # 0 /\ ~bootstrap_and_drop THEN pick ELSE 0
  IN IF ~Found(s, handshake_packet.node_id, pick) THEN Fail(s)
     ELSE IF joining_connection # 0 THEN DoClose(s, joining_connection, FALSE)
     ELSE Connect(s, handshake_packet.node_id, endpoint,
                  IF bootstrap_and_drop THEN "zero" ELSE "bootstrap_connection_lifespan",
                  "inbound", 0, id)

HandlePingFromAlwaysConnect(s, handshake_packet, endpoint, pick, id) ==
  IF handshake_packet.node_id = kThisNodeId THEN s
  ELSE IF IsValid(endpoint)
  THEN Connect(s, handshake_packet.node_id, endpoint,
               IF handshake_packet.reason = "BootstrapAndDrop" THEN "zero"
               ELSE "bootstrap_connection_lifespan",
               "inbound", 0, id)
  ELSE s

HandlePingFrom(s, handshake_packet, endpoint, pick, id) ==
  IF handshake_packet.node_id = kThisNodeId THEN s
  ELSE IF IsValid(endpoint)
  THEN LET bootstrap_and_drop == handshake_packet.reason = "BootstrapAndDrop"
           joining_connection == IF pick # 0 /\ ~bootstrap_and_drop THEN pick ELSE 0
           s1 == UnderMutex(s, <<"FindConnection">>)
       IN IF ~Found(s, handshake_packet.node_id, pick) THEN Fail(s)
          ELSE IF joining_connection # 0 THEN DoClose(s1, joining_connection, FALSE)
          ELSE Connect(s1, handshake_packet.node_id, endpoint,
                       IF bootstrap_and_drop THEN "zero" ELSE "bootstrap_connection_lifespan",
                       "inbound", 0, id)
  ELSE s

\* The sockets the two find_if searches of GetSocket match.
ExactMatch(s, endpoint) ==
  {s.sockets_[i] : i \in {j \in RegIds(s) : s.conn[s.sockets_[j]].ep = endpoint}}

AddressMatchAny(s, endpoint) ==
  {s.sockets_[i] : i \in {j \in RegIds(s) :
       s.conn[s.sockets_[j]].ep.addr = endpoint.addr}}

AddressMatchConnected(s, endpoint) ==
  {s.sockets_[i] : i \in {j \in RegIds(s) :
       /\ s.conn[s.sockets_[j]].ep.addr = endpoint.addr
       /\ ~OnPrivateNetwork(s.conn[s.sockets_[j]].ep)}}

AddressMatch(s, endpoint) ==
  {s.sockets_[i] : i \in {j \in RegIds(s) :
       /\ s.conn[s.sockets_[j]].ep.addr = endpoint.addr
       /\ ~OnPrivateNetwork(s.conn[s.sockets_[j]].ep)
       /\ ~s.conn[s.sockets_[j]].connected}}

Routed(s, sock, upd, hpf) == [st |-> s, sock |-> sock, upd |-> upd, hpf |-> hpf]

\* ConnectionManager::GetSocket: the socket the datagram is delivered to (0 for
\* nullptr), the sockets whose peer endpoint was updated, whether HandlePingFrom ran.
GetSocketNormalToPing(s, data, endpoint, sel, pick, id) ==
  IF RegIds(s) = {} \/ ~data.decodes \/ ~data.hsdecodes THEN Routed(s, 0, <<>>, FALSE)
  ELSE IF ExactMatch(s, endpoint) = {}
       THEN Routed(HandlePingFrom(s, data, endpoint, pick, id), 0, <<>>, TRUE)
       ELSE Routed(IF sel \in ExactMatch(s, endpoint) THEN s ELSE Fail(s), sel, <<>>, FALSE)

GetSocket(s, data, endpoint, sel, pick, id) ==
  IF RegIds(s) = {} THEN Routed(s, 0, <<>>, FALSE)
  ELSE IF ~data.decodes THEN Routed(s, 0, <<>>, FALSE)
  ELSE IF data.dest = 0
  THEN IF ~data.hsdecodes THEN Routed(s, 0, <<>>, FALSE)
       ELSE IF data.reason = "Normal"
       THEN IF ExactMatch(s, endpoint) # {}
            THEN Routed(IF sel \in ExactMatch(s, endpoint) THEN s ELSE Fail(s), sel, <<>>, FALSE)
            ELSE IF AddressMatch(s, endpoint) # {}
            THEN Routed(IF sel \in AddressMatch(s, endpoint)
                        THEN UpdatePeerEndpoint(s, sel, endpoint) ELSE Fail(s),
                        sel, <<sel>>, FALSE)
            ELSE Routed(s, 0, <<>>, FALSE)
       ELSE IF ExactMatch(s, endpoint) = {}
            THEN Routed(HandlePingFrom(s, data, endpoint, pick, id), 0, <<>>, TRUE)
            ELSE Routed(IF sel \in ExactMatch(s, endpoint) THEN s ELSE Fail(s), sel, <<>>, FALSE)
  ELSE Routed(s, FindSocket(s, data.dest), <<>>, FALSE)


---------------------------------------------------------------------------
(* The strand *)

Task(task) == [task |-> task, conn |-> 0, k |-> 0, cm |-> FALSE, code |-> "",
               peer |-> InvalidNodeId, e |-> Event("", 0, FALSE, FALSE)]

Post(s, t) == [s EXCEPT !.strand = Append(@, t)]

\* A call of CloseConnection or Send as the caller sees it: what it returned and,
\* for Send, whether message_sent_functor has been invoked.
Request(op, peer_id, result) ==
  [op |-> op, peer |-> peer_id, result |-> result, on_sent |-> FALSE]

\* ConnectionManager::CloseConnection, called on the caller's thread; itr is what
\* FindConnection gave, 0 for end().
CM_CloseConnectionErase(s, peer_id, itr) ==
  IF itr = 0 THEN [s EXCEPT !.requests = Append(@, Request("CloseConnection", peer_id, FALSE))]
  ELSE Post([s EXCEPT !.requests = Append(@, Request("CloseConnection", peer_id, TRUE)),
                      !.connections_ = @ \ {itr}],
            [Task("ConnClose") EXCEPT !.conn = itr])

CM_CloseConnection(s, peer_id, itr) ==
  LET s1 == UnderMutex(s, <<"FindConnection">>)
  IN IF itr = 0
     THEN [s1 EXCEPT !.requests = Append(@, Request("CloseConnection", peer_id, FALSE))]
     ELSE Post([s1 EXCEPT !.requests = Append(@, Request("CloseConnection", peer_id, TRUE))],
               [Task("ConnClose") EXCEPT !.conn = itr])

\* ConnectionManager::Send, called on the caller's thread.
CM_SendToFirst(s, peer_id, itr) ==
  IF s.connections_ = {} THEN [s EXCEPT !.requests = Append(@, Request("Send", peer_id, FALSE))]
  ELSE Post([s EXCEPT !.requests = Append(@, Request("Send", peer_id, TRUE))],
            [Task("StartSending") EXCEPT !.conn = CHOOSE c \in s.connections_ : TRUE,
                                         !.k = Len(s.requests) + 1])

CM_Send(s, peer_id, itr) ==
  LET s1 == UnderMutex(s, <<"FindConnection">>)
  IN IF itr = 0 THEN [s1 EXCEPT !.requests = Append(@, Request("Send", peer_id, FALSE))]
     ELSE Post([s1 EXCEPT !.requests = Append(@, Request("Send", peer_id, TRUE))],
               [Task("StartSending") EXCEPT !.conn = itr, !.k = Len(s.requests) + 1])

\* Connection::MakePermanent
MakePermanent(s, c, validated) == [s EXCEPT !.conn[c].state = "Permanent"]

\* ConnectionManager::MakeConnectionPermanent; itr is what FindConnection gave, 0
\* for end(), and peer_endpoint the value the caller's variable held.  Gives the
\* state, the value returned and the value left in peer_endpoint.
CM_MakeConnectionPermanentKeepOut(s, peer_id, validated, itr, peer_endpoint) ==
  IF itr = 0
  THEN [st |-> [s EXCEPT !.requests = Append(@, Request("MakeConnectionPermanent", peer_id, FALSE))],
        result |-> FALSE, peer_endpoint |-> peer_endpoint]
  ELSE [st |-> MakePermanent([s EXCEPT !.requests =
                                Append(@, Request("MakeConnectionPermanent", peer_id, TRUE))],
                             itr, validated),
        result |-> TRUE,
        peer_endpoint |-> IF ~OnPrivateNetwork(s.conn[itr].ep) THEN s.conn[itr].ep
                          ELSE peer_endpoint]

CM_MakeConnectionPermanent(s, peer_id, validated, itr, peer_endpoint) ==
  IF itr = 0
  THEN [st |-> UnderMutex([s EXCEPT !.requests =
                             Append(@, Request("MakeConnectionPermanent", peer_id, FALSE))],
                          <<"FindConnection">>),
        result |-> FALSE, peer_endpoint |-> NullEndpoint]
  ELSE [st |-> MakePermanent(UnderMutex([s EXCEPT !.requests =
                                Append(@, Request("MakeConnectionPermanent", peer_id, TRUE))],
                                        <<"FindConnection", "Connection::MakePermanent",
                                          "Socket::PeerEndpoint">>),
                             itr, validated),
        result |-> TRUE,
        peer_endpoint |-> IF ~OnPrivateNetwork(s.conn[itr].ep) THEN s.conn[itr].ep
                          ELSE NullEndpoint]

\* Connection::StartSending: the connection takes the message and reports the
\* outcome of sending it through message_sent_functor.
StartSending(s, c, k) == [s EXCEPT !.requests[k].on_sent = TRUE]

---------------------------------------------------------------------------
(* Transport::Bootstrap *)

NatTypes == {"kSymmetric", "kOther"}

Contact(id, ext) == [id |-> id, ext |-> ext]

\* Contact(): the null contact.
NullContact == Contact(InvalidNodeId, NullEndpoint)

Candidates == {Contact(n, e) : n \in PeerIds,
                               e \in {NullEndpoint} \cup {Ep(a, p) : a \in PublicAddrs, p \in Ports}}

BootstrapLists == UNION {[1..n -> Candidates] : n \in 0..MaxCandidates}

NoBoot == [called |-> FALSE, opened |-> FALSE, list |-> <<>>, off |-> FALSE,
           nat |-> "kOther", lifespan |-> "zero", attempts |-> <<>>, connects |-> <<>>,
           succeeded |-> <<>>, reports |-> <<>>, pings |-> <<>>]

\* The user's on_bootstrap handler is invoked.
BootReport(s, code, contact) ==
  [s EXCEPT !.boot.reports = Append(@, [code |-> code, contact |-> contact])]

\* The on_bootstrap lambda of TryBootstrapping.
OnBootstrap(s, peer_id) ==
  IF NodeIdIsValid(peer_id)
  THEN LET matches == {i \in 1..Len(s.boot.list) : s.boot.list[i].id = peer_id}
           itr == CHOOSE i \in matches : \A j \in matches : i <= j
       IN IF matches = {} THEN Fail(s) ELSE BootReport(s, "kSuccess", s.boot.list[itr])
  ELSE BootReport(s, "kNotConnectable", NullContact)

\* ConnectionManager::Ping
Ping(s, peer_id, peer_endpoint, call, id) ==
  Connect([s EXCEPT !.boot.pings = Append(@, peer_id)],
          peer_id, peer_endpoint, "zero", "ping", call, id)

\* ConnectToBootstrapEndpoint(contact, lifespan, handler), for candidate i, on the
\* strand; an invalid endpoint makes the handler run at once with NodeId(), which
\* is ConnectToBootstrapEndpoint(begin, end, ...) for the next candidate.
RECURSIVE BootAttempt(_, _, _)
BootAttempt(s, i, id) ==
  IF i > Len(s.boot.list) THEN OnBootstrap(s, InvalidNodeId)
  ELSE LET s1 == [s EXCEPT !.boot.attempts = Append(@, i)]
       IN IF ~IsValid(s.boot.list[i].ext) THEN BootAttempt(s1, i + 1, id)
          ELSE Connect([s1 EXCEPT !.boot.connects = Append(@, i)],
                       s.boot.list[i].id, s.boot.list[i].ext, s.boot.lifespan,
                       "bootstrap", i, id)

\* The handler ConnectToBootstrapEndpoint(begin, end, ...) gives candidate i.
BootIter(s, i, peer_id, id) ==
  IF ~NodeIdIsValid(peer_id) THEN BootAttempt(s, i + 1, id) ELSE OnBootstrap(s, peer_id)

\* Transport::DetectNatType; pick is the connection RemoteNatDetectionEndpoint finds.
DetectNatType(s, peer_id, i, pick, id) ==
  LET nat_detection_endpoint == IF pick = 0 THEN NullEndpoint ELSE s.conn[pick].natdet
      s1 == UnderMutex(s, IF pick = 0 THEN <<"FindConnection">>
                          ELSE <<"FindConnection", "Socket::RemoteNatDetectionEndpoint">>)
  IN IF ~Found(s, peer_id, pick) THEN Fail(s)
     ELSE IF ~IsValid(nat_detection_endpoint) THEN BootIter(s1, i, peer_id, id)
     ELSE Ping(s1, peer_id, nat_detection_endpoint, i, id)

\* The on_ping lambda of DetectNatType.
OnPingKeepNatType(s, c, success, id) == BootIter(s, s.conn[c].call, s.conn[c].peer, id)

OnPing(s, c, success, id) ==
  BootIter(IF ~success THEN [s EXCEPT !.nat_type_ = "kSymmetric"] ELSE s,
           s.conn[c].call, s.conn[c].peer, id)

\* The on_connect lambda of ConnectToBootstrapEndpoint(contact, ...).
BootstrapOnConnectIgnoreError(s, c, error, pick, id) ==
  DetectNatType([Transport_AddConnection(s, c) EXCEPT
                   !.boot.succeeded = Append(@, s.conn[c].call)],
                s.conn[c].peer, s.conn[c].call, pick, id)

BootstrapOnConnect(s, c, error, pick, id) ==
  IF error THEN BootIter(s, s.conn[c].call, InvalidNodeId, id)
  ELSE DetectNatType([Transport_AddConnection(s, c) EXCEPT
                        !.boot.succeeded = Append(@, s.conn[c].call)],
                     s.conn[c].peer, s.conn[c].call, pick, id)

\* Transport::TryBootstrapping, called on the caller's thread.
TryBootstrappingAlways(s, bootstrap_list, bootstrap_off_existing_connection, id) ==
  LET s1 == [s EXCEPT !.boot.lifespan = IF bootstrap_off_existing_connection THEN "zero"
                                          ELSE "bootstrap_connection_lifespan"]
  IN IF Len(bootstrap_list) = 0
     THEN Post(s1, [Task("OnBootstrap") EXCEPT !.peer = InvalidNodeId])
     ELSE IF ~IsValid(bootstrap_list[1].ext)
     THEN Post([s1 EXCEPT !.boot.attempts = <<1>>], [Task("BootRetry") EXCEPT !.k = 1])
     ELSE BootAttempt(s1, 1, id)

TryBootstrapping(s, bootstrap_list, bootstrap_off_existing_connection, id) ==
  LET try_connect == IF bootstrap_off_existing_connection
                     THEN s.nat_type_ # "kSymmetric" ELSE TRUE
      lifespan == IF bootstrap_off_existing_connection THEN "zero"
                  ELSE "bootstrap_connection_lifespan"
      s1 == [s EXCEPT !.boot.lifespan = lifespan]
  IN IF ~try_connect THEN Post(s1, [Task("Report") EXCEPT !.code = "kSuccess"])
     ELSE IF Len(bootstrap_list) = 0
     THEN Post(s1, [Task("OnBootstrap") EXCEPT !.peer = InvalidNodeId])
     ELSE IF ~IsValid(bootstrap_list[1].ext)
     THEN Post([s1 EXCEPT !.boot.attempts = <<1>>], [Task("BootRetry") EXCEPT !.k = 1])
     ELSE BootAttempt(s1, 1, id)

\* Transport::Bootstrap
BootstrapInstallFirst(s, bootstrap_list, bootstrap_off_existing_connection, openOk, id) ==
  LET s0 == [s EXCEPT !.boot = [NoBoot EXCEPT !.called = TRUE, !.opened = openOk,
                                              !.list = bootstrap_list,
                                              !.off = bootstrap_off_existing_connection,
                                              !.nat = s.nat_type_],
                      !.on_message_ = TRUE,
                      !.on_connection_added_ = TRUE,
                      !.on_connection_lost_ = TRUE,
                      !.connection_manager_ = TRUE]
  IN IF ~openOk THEN Post(s0, [Task("Report") EXCEPT !.code = "kOpenFailed"])
     ELSE TryBootstrapping([s0 EXCEPT !.mux = [open |-> TRUE, dispatcher |-> TRUE]],
                           bootstrap_list, bootstrap_off_existing_connection, id)

Bootstrap(s, bootstrap_list, bootstrap_off_existing_connection, openOk, id) ==
  LET s0 == [s EXCEPT !.boot = [NoBoot EXCEPT !.called = TRUE, !.opened = openOk,
                                              !.list = bootstrap_list,
                                              !.off = bootstrap_off_existing_connection,
                                              !.nat = s.nat_type_]]
  IN IF ~openOk THEN Post(s0, [Task("Report") EXCEPT !.code = "kOpenFailed"])
     ELSE TryBootstrapping([s0 EXCEPT !.mux = [open |-> TRUE, dispatcher |-> TRUE],
                                      !.on_message_ = TRUE,
                                      !.on_connection_added_ = TRUE,
                                      !.on_connection_lost_ = TRUE,
                                      !.connection_manager_ = TRUE],
                           bootstrap_list, bootstrap_off_existing_connection, id)

---------------------------------------------------------------------------
(* Transport::Connect *)

EndpointPair(local, external) == [local |-> local, external |-> external]

\* Pairs with no external endpoint, with local = external, and with the two apart.
EndpointPairs ==
  {EndpointPair(Ep(a, 1), NullEndpoint) : a \in PrivateAddrs}
  \cup {EndpointPair(Ep(a, 1), Ep(a, 1)) : a \in PublicAddrs}
  \cup {EndpointPair(Ep(a, 1), Ep(b, 1)) : a \in PrivateAddrs, b \in PublicAddrs}

\* Pairs that give sockets on each port of a public address, and on a private one.
DispatchPairs ==
  {EndpointPair(Ep(a, 1), NullEndpoint) : a \in PrivateAddrs}
  \cup {EndpointPair(Ep(a, p), Ep(a, p)) : a \in PublicAddrs, p \in Ports}

\* The caller's ConnectionAddedFunctor is invoked.
Handler(s, k, result) == [s EXCEPT !.calls[k].results = Append(@, result)]

\* on_connect of DoConnect: default_on_connect, then the caller's handler.
RvOnConnect(s, c, error) ==
  Handler(IF error THEN s ELSE Transport_AddConnection(s, c), s.conn[c].call,
          IF error THEN "failed" ELSE "success")

\* on_connect2 of DoConnect, given to the connect to the external endpoint.
RvOnConnect2ReportsBoth(s, c, error, id) ==
  IF ~s.mux.open THEN RvOnConnect(s, c, error)
  ELSE Connect(RvOnConnect(s, c, error), s.conn[c].peer, s.calls[s.conn[c].call].pair.local,
               "pos_infin", "rv", s.conn[c].call, id)

RvOnConnect2(s, c, error, id) ==
  IF ~s.mux.open THEN RvOnConnect(s, c, error)
  ELSE Connect(s, s.conn[c].peer, s.calls[s.conn[c].call].pair.local, "pos_infin", "rv",
               s.conn[c].call, id)

\* Transport::DoConnect for the k-th Connect call.
DoConnectNoOpenCheck(s, k, id) ==
  LET peer_id == s.calls[k].peer
      peer_endpoint_pair == s.calls[k].pair
  IN IF IsValid(peer_endpoint_pair.external)
     THEN Connect(s, peer_id, peer_endpoint_pair.external, "pos_infin",
                  IF peer_endpoint_pair.local # peer_endpoint_pair.external
                  THEN "rv_ext" ELSE "rv", k, id)
     ELSE Connect(s, peer_id, peer_endpoint_pair.local, "pos_infin", "rv", k, id)

DoConnectLocalFirst(s, k, id) ==
  LET peer_id == s.calls[k].peer
      peer_endpoint_pair == s.calls[k].pair
  IN IF ~s.mux.open THEN Handler(s, k, "failed_to_connect")
     ELSE Connect(s, peer_id, peer_endpoint_pair.local, "pos_infin", "rv", k, id)

DoConnect(s, k, id) ==
  LET peer_id == s.calls[k].peer
      peer_endpoint_pair == s.calls[k].pair
  IN IF ~s.mux.open THEN Handler(s, k, "failed_to_connect")
     ELSE IF IsValid(peer_endpoint_pair.external)
     THEN Connect(s, peer_id, peer_endpoint_pair.external, "pos_infin",
                  IF peer_endpoint_pair.local # peer_endpoint_pair.external
                  THEN "rv_ext" ELSE "rv", k, id)
     ELSE Connect(s, peer_id, peer_endpoint_pair.local, "pos_infin", "rv", k, id)

\* Transport::Connect
TransportConnect(s, peer_id, peer_endpoint_pair) ==
  Post([s EXCEPT !.calls = Append(@, [peer |-> peer_id, pair |-> peer_endpoint_pair,
                                      results |-> <<>>])],
       [Task("DoConnect") EXCEPT !.k = Len(s.calls) + 1])

---------------------------------------------------------------------------
(* Handshake outcomes *)

\* The connect handler a Connection was given.
OnConnect(s, c, error, pick, id) ==
  CASE s.conn[c].via = "bootstrap" -> BootstrapOnConnect(s, c, error, pick, id)
    [] s.conn[c].via = "rv" -> RvOnConnect(s, c, error)
    [] s.conn[c].via = "rv_ext" -> RvOnConnect2(s, c, error, id)
    [] s.conn[c].via = "ping" ->
         OnPing(IF error THEN s ELSE Transport_AddConnection(s, c), c, ~error, id)
    [] OTHER -> IF error THEN s ELSE Transport_AddConnection(s, c)

HandshakeOk(s, c, natdet, pick, id) ==
  OnConnect([s EXCEPT !.conn[c].state = StateOnConnect(s.conn[c].lifespan),
                      !.conn[c].connected = TRUE, !.conn[c].natdet = natdet],
            c, FALSE, pick, id)

\* A Pending connection whose handshake fails reports the error to its connect
\* handler and is destroyed.
HandshakeFail(s, c, pick, id) == Destroy(OnConnect(s, c, TRUE, pick, id), c)

---------------------------------------------------------------------------
(* Close *)

Orderings(S) == {q \in [1..Cardinality(S) -> S] : \A i, j \in 1..Cardinality(S) : q[i] = q[j] => i = j}

\* ConnectionManager::Close; ord is the order in which connections_ is walked.
CM_CloseDetachOnly(s, ord) == [s EXCEPT !.mux.dispatcher = FALSE]

CM_CloseClearsSet(s, ord) ==
  [s EXCEPT !.mux.dispatcher = FALSE,
            !.strand = @ \o [i \in 1..Len(ord) |-> [Task("ConnClose") EXCEPT !.conn = ord[i]]],
            !.connections_ = {}]

CM_Close(s, ord) ==
  UnderMutex([s EXCEPT !.mux.dispatcher = FALSE,
                       !.strand = @ \o [i \in 1..Len(ord) |->
                                          [Task("ConnClose") EXCEPT !.conn = ord[i]]]],
             [i \in 1..Len(ord) |-> "strand_.post"])

\* The handler Transport::Close gives the strand.
CloseLambda(s, connection_manager, ord) ==
  [(IF connection_manager THEN CM_Close(s, ord) ELSE s) EXCEPT !.mux.open = FALSE]

\* Transport::Close, on the caller's thread
TransportClose(s) ==
  Post([s EXCEPT !.on_message_ = FALSE, !.on_connection_added_ = FALSE,
                 !.on_connection_lost_ = FALSE, !.closeCalls = @ + 1],
       [Task("CloseLambda") EXCEPT !.cm = s.connection_manager_])

\* The handler at the head of the strand runs.
RunTask(s, t, ord, pick, id) ==
  CASE t.task = "CloseLambda" -> CloseLambda(s, t.cm, ord)
    [] t.task = "ConnClose" -> DoClose(s, t.conn, FALSE)
    [] t.task = "DoConnect" -> DoConnect(s, t.k, id)
    [] t.task = "OnBootstrap" -> OnBootstrap(s, t.peer)
    [] t.task = "BootRetry" -> BootAttempt(s, t.k + 1, id)
    [] t.task = "StartSending" -> StartSending(s, t.conn, t.k)
    [] OTHER -> BootReport(s, t.code, NullContact)


---------------------------------------------------------------------------
(* Actions *)

InitWith(nats) ==
  /\ conn = [c \in ConnIds |-> NoConn]
  /\ connections_ = {}
  /\ sockets_ = [i \in SocketIds |-> 0]
  /\ on_message_ = FALSE
  /\ on_connection_added_ = FALSE
  /\ on_connection_lost_ = FALSE
  /\ mux = [open |-> FALSE, dispatcher |-> FALSE]
  /\ connection_manager_ = FALSE
  /\ nat_type_ \in nats
  /\ strand = <<>>
  /\ events = [p \in NodeIds |-> <<>>]
  /\ boot = NoBoot
  /\ calls = <<>>
  /\ closeCalls = 0
  /\ requests = <<>>
  /\ mutex_ = <<>>
  /\ last = Op("Init")

\* A transport as constructed, its NAT type not symmetric.
Init == InitWith({"kOther"})

\* A transport as constructed, with any NAT type.
InitBoot == InitWith(NatTypes)

\* The draws on which AddSocket's loop can end.
Draws(s) == IF \A id \in RandomUint32 : AddSocketRetry(s, id) THEN {0}
            ELSE {id \in RandomUint32 : ~AddSocketRetry(s, id)}

\* Socket ids are only compared with each other and with 0, so the actions that
\* construct a Connection follow one draw; RegAddSocket takes every draw.
Draw(s) == {CHOOSE id \in Draws(s) : \A other \in Draws(s) : id <= other}

Picks(s, peer_id) == IF FindConnection(s, peer_id) = {} THEN {0} ELSE FindConnection(s, peer_id)

\* The user calls Transport::Bootstrap.
CallBootstrap(lists, offs, opens) ==
  /\ ~boot.called
  /\ ~mux.open
  /\ \E bootstrap_list \in lists, off \in offs, openOk \in opens, id \in Draw(Cur) :
       Becomes(Bootstrap(Cur, bootstrap_list, off, openOk, id), Op("Bootstrap"))

\* The user calls Transport::Connect.
CallConnect(peers, pairs) ==
  /\ Len(calls) < MaxConnectCalls
  /\ \E peer_id \in peers, pair \in pairs :
       Becomes(TransportConnect(Cur, peer_id, pair), [Op("Connect") EXCEPT !.peer = peer_id])

\* The user calls Transport::Close.
CallClose ==
  /\ closeCalls < MaxCloseCalls
  /\ Becomes(TransportClose(Cur), Op("Close"))

\* The user calls Transport::CloseConnection.
CallCloseConnection(peers) ==
  /\ connection_manager_
  /\ Len(requests) < MaxRequests
  /\ \E peer_id \in peers : \E itr \in Picks(Cur, peer_id) :
       Becomes(CM_CloseConnection(Cur, peer_id, itr),
               [Op("CloseConnection") EXCEPT !.peer = peer_id, !.conn = itr])

\* The user calls Transport::Send.
CallSend(peers) ==
  /\ connection_manager_
  /\ Len(requests) < MaxRequests
  /\ \E peer_id \in peers : \E itr \in Picks(Cur, peer_id) :
       Becomes(CM_Send(Cur, peer_id, itr),
               [Op("Send") EXCEPT !.peer = peer_id, !.conn = itr])

\* The user calls MakeConnectionPermanent, its out variable holding any endpoint.
CallMakeConnectionPermanent(peers) ==
  /\ connection_manager_
  /\ Len(requests) < MaxRequests
  /\ \E peer_id \in peers, validated \in BOOLEAN, peer_endpoint \in {NullEndpoint, Ep(2, 2)} :
       \E itr \in Picks(Cur, peer_id) :
         LET r == CM_MakeConnectionPermanent(Cur, peer_id, validated, itr, peer_endpoint)
         IN Becomes(r.st, [Op("MakeConnectionPermanent") EXCEPT
                             !.peer = peer_id, !.conn = itr,
                             !.res = IF r.result THEN "true" ELSE "false",
                             !.peer_endpoint = r.peer_endpoint])

\* The strand runs the handler at its head.
StrandStep ==
  /\ strand # <<>>
  /\ LET t == Head(strand)
         s == [Cur EXCEPT !.strand = Tail(strand)]
     IN \E ord \in (IF t.task = "CloseLambda" /\ t.cm THEN Orderings(connections_) ELSE {<<>>}),
           id \in Draw(s) :
          LET r == RunTask(s, t, ord, 0, id)
          IN Becomes(r, [Op(t.task) EXCEPT !.conn = t.conn])

\* The multiplexer hands a datagram from sender to ConnectionManager::GetSocket.
Receive(pkts, senders) ==
  /\ mux.open
  /\ mux.dispatcher
  /\ \E data \in pkts, endpoint \in senders :
       \E sel \in (IF ExactMatch(Cur, endpoint) # {} THEN ExactMatch(Cur, endpoint)
                   ELSE IF AddressMatch(Cur, endpoint) # {} THEN AddressMatch(Cur, endpoint)
                   ELSE {0}),
          pick \in Picks(Cur, data.node_id), id \in Draw(Cur) :
         LET r == GetSocket(Cur, data, endpoint, sel, pick, id)
         IN Becomes(r.st, [Op("GetSocket") EXCEPT
                             !.id = data.dest, !.peer = data.node_id,
                             !.reason = IF data.decodes /\ data.dest = 0 /\ data.hsdecodes
                                        THEN data.reason ELSE "",
                             !.sender = endpoint, !.sock = r.sock, !.upd = r.upd,
                             !.hpf = r.hpf])

\* The handshake of connection c completes.
Connected ==
  /\ mux.open
  /\ \E c \in ConnIds :
       /\ conn[c].state = "Pending"
       /\ conn[c].open
       /\ \E natdet \in (IF conn[c].via = "bootstrap"
                         THEN {NullEndpoint} \cup {Ep(a, 1) : a \in PublicAddrs}
                         ELSE {NullEndpoint}),
             pick \in (IF conn[c].via = "bootstrap" THEN {0} \cup ConnIds ELSE {0}),
             id \in Draw(Cur) :
            LET s1 == [Cur EXCEPT !.conn[c].state = StateOnConnect(conn[c].lifespan)]
                r == HandshakeOk(Cur, c, natdet, pick, id)
            IN Becomes(r, [Op("Connected") EXCEPT
                             !.conn = c, !.peer = conn[c].peer,
                             !.res = IF conn[c].via = "rv_ext" THEN "notcalled"
                                     ELSE AddConnectionResult(s1, c)])

\* The handshake of connection c fails or times out.
ConnectFailed ==
  \E c \in ConnIds :
    /\ conn[c].state = "Pending"
    /\ conn[c].open
    /\ \E id \in Draw(Cur) :
         LET r == HandshakeFail(Cur, c, 0, id)
         IN Becomes(r, [Op("ConnectFailed") EXCEPT !.conn = c, !.peer = conn[c].peer])

\* An established connection is closed by its peer or by a timeout.
Dropped ==
  \E c \in ConnIds, timed_out \in BOOLEAN :
    /\ conn[c].open
    /\ conn[c].state \notin {"Absent", "Pending"}
    /\ Becomes(DoClose(Cur, c, timed_out),
               [Op("Dropped") EXCEPT !.conn = c, !.peer = conn[c].peer,
                                     !.res = IF timed_out THEN "kTimedOut" ELSE "closed"])

Messages(c) == {i \in 1..Len(events[conn[c].peer]) :
                  events[conn[c].peer][i].cb = "message" /\ events[conn[c].peer][i].conn = c}

\* Data arrives on connection c.
MessageArrived ==
  /\ mux.open
  /\ \E c \in ConnIds :
       /\ conn[c].open
       /\ conn[c].connected
       /\ IsNormal(conn[c].state)
       /\ Cardinality(Messages(c)) < MaxMsgs
       /\ Becomes(DefaultOnReceiveHandler(Cur, c),
                  [Op("Message") EXCEPT !.conn = c, !.peer = conn[c].peer])

\* Direct calls on the socket registry.
RegAddSocket ==
  /\ connection_manager_
  /\ \E c \in ConnIds, id \in RandomUint32 :
       /\ conn[c].state = "Absent"
       /\ conn[c].id = 0
       /\ ~AddSocketRetry(Cur, id)
       /\ Becomes(AddSocket(Cur, c, id), [Op("AddSocket") EXCEPT !.conn = c, !.id = id])

RegRemoveSocket ==
  /\ connection_manager_
  /\ \E id \in RandomUint32 :
       LET s1 == RemoveSocket(Cur, id)
       IN Becomes([s1 EXCEPT !.conn = [c \in ConnIds |->
                                IF id # 0 /\ conn[c].id = id
                                THEN [conn[c] EXCEPT !.id = 0] ELSE conn[c]]],
                  [Op("RemoveSocket") EXCEPT !.id = id, !.sock = FindSocket(Cur, id)])

RegFindSocket ==
  /\ connection_manager_
  /\ \E id \in SocketIds :
       Becomes(Cur, [Op("FindSocket") EXCEPT !.id = id, !.sock = FindSocket(Cur, id)])

---------------------------------------------------------------------------
(* Specifications *)

\* The transport with rendezvous connects and inbound handshakes.
InboundPackets == {Packet(TRUE, 0, TRUE, r, 2) : r \in {"BootstrapAndDrop", "Ping"}}

InboundSenders == {Ep(a, 1) : a \in PublicAddrs}

Next ==
  \/ CallBootstrap({<<>>}, {FALSE}, {TRUE})
  \/ CallConnect(PeerIds, EndpointPairs)
  \/ StrandStep
  \/ Receive(InboundPackets, InboundSenders)
  \/ Connected
  \/ ConnectFailed
  \/ Dropped
  \/ MessageArrived

Spec == Init /\ [][Next]_vars

\* The socket registry under direct calls.
NextReg ==
  \/ CallBootstrap({<<>>}, {FALSE}, {TRUE})
  \/ StrandStep
  \/ RegAddSocket
  \/ RegRemoveSocket
  \/ RegFindSocket

SpecReg == Init /\ [][NextReg]_vars

\* Datagram routing over the sockets of rendezvous connects.
DispatchPackets ==
  {Packet(FALSE, 0, FALSE, "Normal", InvalidNodeId), Packet(TRUE, 0, FALSE, "Normal", InvalidNodeId),
   Packet(TRUE, 1, FALSE, "Normal", InvalidNodeId), Packet(TRUE, 0, TRUE, "Normal", 2)}

DispatchSenders == Endpoints \ {NullEndpoint}

NextDispatch ==
  \/ CallBootstrap({<<>>}, {FALSE}, {TRUE})
  \/ CallConnect({2}, DispatchPairs)
  \/ StrandStep
  \/ Connected
  \/ Receive(DispatchPackets, DispatchSenders)

SpecDispatch == Init /\ [][NextDispatch]_vars

\* Transport::Close against rendezvous connects in every phase.
ClosePairs == {EndpointPair(Ep(2, 1), NullEndpoint)}

NextClose ==
  \/ CallBootstrap({<<>>}, {FALSE}, {TRUE})
  \/ CallConnect(PeerIds, ClosePairs)
  \/ CallClose
  \/ StrandStep
  \/ Connected
  \/ ConnectFailed
  \/ Dropped

\* The strand is an asio strand: a handler posted to it is eventually run.
SpecClose == Init /\ [][NextClose]_vars /\ WF_vars(StrandStep)

\* Rendezvous connects to one peer, with every shape of endpoint pair.
NextRv ==
  \/ CallBootstrap({<<>>}, {FALSE}, {TRUE})
  \/ CallConnect({2}, EndpointPairs)
  \/ StrandStep
  \/ Connected
  \/ ConnectFailed
  \/ Dropped

SpecRv == Init /\ [][NextRv]_vars

\* CloseConnection and Send against connections in every phase.
NextRequests ==
  \/ CallBootstrap({<<>>}, {FALSE}, {TRUE})
  \/ CallConnect(PeerIds, ClosePairs)
  \/ CallCloseConnection(PeerIds)
  \/ CallSend(PeerIds)
  \/ StrandStep
  \/ Connected
  \/ ConnectFailed
  \/ Dropped

SpecRequests == Init /\ [][NextRequests]_vars

\* A connect to a private endpoint and a connect to a public one.
PermanentPairs ==
  {EndpointPair(Ep(a, 1), NullEndpoint) : a \in PrivateAddrs}
  \cup {EndpointPair(Ep(a, 1), Ep(a, 1)) : a \in PublicAddrs}

\* MakeConnectionPermanent against connections in every phase.
NextPermanent ==
  \/ CallBootstrap({<<>>}, {FALSE}, {TRUE})
  \/ CallConnect({2}, PermanentPairs)
  \/ CallMakeConnectionPermanent(PeerIds)
  \/ StrandStep
  \/ Connected
  \/ ConnectFailed
  \/ Dropped

SpecPermanent == Init /\ [][NextPermanent]_vars

\* Pings and join requests from this node's own id and from another node, from a
\* valid sender and from the null endpoint.
PingPackets ==
  {Packet(TRUE, 0, TRUE, r, n) : r \in {"BootstrapAndDrop", "Ping"}, n \in {kThisNodeId, 2}}

PingSenders == {NullEndpoint} \cup {Ep(a, 1) : a \in PublicAddrs}

NextPing ==
  \/ CallBootstrap({<<>>}, {FALSE}, {TRUE})
  \/ CallConnect({2}, ClosePairs)
  \/ StrandStep
  \/ Receive(PingPackets, PingSenders)
  \/ Connected
  \/ ConnectFailed
  \/ Dropped

SpecPing == Init /\ [][NextPing]_vars

\* Rendezvous connects with every shape of endpoint pair, against Transport::Close.
NextRvClose ==
  \/ CallBootstrap({<<>>}, {FALSE}, {TRUE})
  \/ CallConnect({2}, EndpointPairs)
  \/ CallClose
  \/ StrandStep
  \/ Connected
  \/ ConnectFailed
  \/ Dropped

SpecRvClose == Init /\ [][NextRvClose]_vars

\* Bootstrap over a list of candidates.
NextBoot ==
  \/ CallBootstrap(BootstrapLists, BOOLEAN, BOOLEAN)
  \/ StrandStep
  \/ Connected
  \/ ConnectFailed
  \/ Dropped

SpecBoot == InitBoot /\ [][NextBoot]_vars

---------------------------------------------------------------------------
(* Properties *)

\* C1: in every reachable state, for every peer node id, connections_ holds at
\* most one connection whose socket's peer node id is that id.
C1_OneConnectionPerPeer ==
  \A peer_id \in NodeIds : Cardinality(FindConnection(Cur, peer_id)) <= 1

\* C2: ConnectionManager::AddConnection on a connection that is not Pending gives
\* InvalidConnection when its state is not normal, AlreadyExists when the set
\* already holds a connection to its peer, and otherwise adds it; the set is
\* unchanged in the first two outcomes.
C2_AddConnectionOutcomes ==
  [][last'.op = "Connected" /\ last'.res \notin {"none", "notcalled"} =>
       LET c == last'.conn
       IN /\ conn'[c].state # "Pending"
          /\ last'.res = (IF ~IsNormal(conn'[c].state) THEN "kInvalidConnection"
                          ELSE IF FindConnection(Cur, conn'[c].peer) # {}
                          THEN "kConnectionAlreadyExists"
                          ELSE "kSuccess")
          /\ last'.res = "kSuccess" => c \in connections_'
          /\ last'.res # "kSuccess" => connections_' = connections_]_vars

\* The callbacks the user has seen for one connection, in order.
Session(c) == SelectSeq(events[conn[c].peer], LAMBDA e : e.conn = c)

\* C3: for every session the callbacks seen are a prefix of one added, then
\* messages, then one lost: added and lost are fired at most once each, and
\* nothing is fired for a session before its added.
C3_CallbackOrder ==
  \A c \in ConnIds :
    \A k \in 1..Len(Session(c)) :
      /\ Session(c)[k].cb = "added" <=> k = 1
      /\ Session(c)[k].cb = "lost" => k = Len(Session(c))


\* C4: every id AddSocket returns is non-zero and differs from every registered
\* id; while a socket is registered, lookup by its id returns that socket; after
\* RemoveSocket(id) lookup of id finds nothing; RemoveSocket(0) and RemoveSocket
\* of an unregistered id leave the registry unchanged.
C4_SocketRegistry ==
  /\ [](\A c \in ConnIds : conn[c].id # 0 => FindSocket(Cur, conn[c].id) = c)
  /\ [][/\ last'.op = "AddSocket" =>
             /\ last'.id # 0
             /\ sockets_[last'.id] = 0
             /\ FindSocket(Cur', last'.id) = last'.conn
        /\ last'.op = "RemoveSocket" =>
             /\ last'.id # 0 => FindSocket(Cur', last'.id) = 0
             /\ (last'.id = 0 \/ last'.sock = 0) => sockets_' = sockets_]_vars

\* A registered socket has been removed while another stays registered.
C4_Witness == last.op = "RemoveSocket" /\ last.sock # 0 /\ RegIds(Cur) # {}

\* Transport::Close has been called and Bootstrap has not installed slots since.
CloseInEffect == closeCalls >= 1 /\ ~on_message_ /\ ~on_connection_added_ /\ ~on_connection_lost_

\* What a user of the transport can observe, the strand's queue aside.
Observable == <<conn, connections_, sockets_, slots, mux, events>>

\* C6: a second Transport::Close changes nothing beyond the first: the call, the
\* handler it posts and the Connection::Close calls that handler schedules leave
\* connections, set, registry, slots, multiplexer and callbacks seen as they
\* were; and once Close has been called the connection set eventually becomes
\* empty, the strand running every handler posted to it.
C6_CloseIdempotentAndDrains ==
  /\ [][last'.op = "Close" /\ CloseInEffect => Observable' = Observable]_vars
  /\ [][last'.op = "CloseLambda" /\ CloseInEffect /\ ~mux.open /\ ~mux.dispatcher =>
          Observable' = Observable]_vars
  /\ [][last'.op = "ConnClose" /\ ~conn[last'.conn].open => Observable' = Observable]_vars
  /\ (last.op = "Close" ~> connections_ = {})

\* Close was called twice, both connections had completed their handshakes, and
\* the strand has run everything: both are closed and the set is empty.
C6_Witness ==
  /\ closeCalls = 2 /\ strand = <<>> /\ connections_ = {}
  /\ \A c \in ConnIds : IsNormal(conn[c].state) /\ ~conn[c].open
  /\ last.op = "ConnClose"

\* The registered sockets a handshake from sender could have its endpoint revised
\* on: same address, another port, public, not yet connected.
Revisable(sender) ==
  {c \in ConnIds : /\ conn[c].id # 0
                   /\ conn[c].ep.addr = sender.addr
                   /\ conn[c].ep.port # sender.port
                   /\ ~OnPrivateNetwork(conn[c].ep)
                   /\ ~conn[c].connected}

\* GetSocket has just been handed a handshake with destination id 0 and reason
\* Normal.
NormalHandshake == last'.op = "GetSocket" /\ last'.reason = "Normal"

\* C5 as stated: a Normal handshake from sender S, with a registered socket on
\* the same address and another port, public and not connected, has
\* UpdatePeerEndpoint(S) called once on that socket and is delivered to it.
C5_AsClaimed ==
  [][NormalHandshake /\ Revisable(last'.sender) # {} =>
       \E c \in Revisable(last'.sender) :
         last'.upd = <<c>> /\ last'.sock = c /\ conn'[c].ep = last'.sender]_vars

\* C5 amended: when moreover no registered socket's peer endpoint equals S,
\* UpdatePeerEndpoint(S) is called exactly once, on one such socket, the packet is
\* delivered to that socket, whose peer endpoint is now S, and every other socket
\* keeps its peer endpoint.
C5_EndpointRevision ==
  [][NormalHandshake /\ Revisable(last'.sender) # {} /\ ExactMatch(Cur, last'.sender) = {} =>
       /\ Len(last'.upd) = 1
       /\ last'.upd[1] \in Revisable(last'.sender)
       /\ last'.sock = last'.upd[1]
       /\ conn'[last'.sock].ep = last'.sender
       /\ conn'[last'.sock].guessed = conn[last'.sock].ep.port
       /\ \A c \in ConnIds \ {last'.sock} : conn'[c] = conn[c]]_vars

\* A socket's peer endpoint has been revised to the sender's while a second
\* socket is registered.
C5_Witness ==
  /\ last.op = "GetSocket" /\ last.reason = "Normal" /\ Len(last.upd) = 1
  /\ conn[last.sock].ep = last.sender
  /\ conn[last.sock].guessed # 0
  /\ Cardinality(RegIds(Cur)) = 2

\* The set holds a normal connection to the node a Normal handshake carries, and
\* the sender matches no registered socket.
DuplicateInbound ==
  /\ NormalHandshake
  /\ \E c \in FindConnection(Cur, last'.peer) : IsNormal(conn[c].state)
  /\ ExactMatch(Cur, last'.sender) = {}
  /\ AddressMatch(Cur, last'.sender) = {}

\* C7 as stated: such a handshake closes the existing connection to the peer and
\* starts a fresh connect to the new endpoint.
C7_AsClaimed ==
  [][DuplicateInbound =>
       /\ \A c \in FindConnection(Cur, last'.peer) : ~conn'[c].open
       /\ \E c \in Started(Cur, Cur') :
            conn'[c].peer = last'.peer /\ conn'[c].ep = last'.sender]_vars

\* C7 amended: such a handshake is dropped: it is delivered to no socket,
\* HandlePingFrom is not called, the existing connection stays open and in the
\* set, no connect is started and no callback is fired.
C7_DuplicateInboundDropped ==
  [][DuplicateInbound =>
       /\ last'.sock = 0 /\ ~last'.hpf
       /\ conn' = conn /\ connections_' = connections_ /\ sockets_' = sockets_
       /\ events' = events /\ strand' = strand]_vars

\* A Normal handshake carrying the node id of an established connection has
\* arrived from an endpoint no socket matches.
C7_Witness ==
  /\ last.op = "GetSocket" /\ last.reason = "Normal" /\ last.sock = 0
  /\ \E c \in FindConnection(Cur, last.peer) : IsNormal(conn[c].state) /\ conn[c].open
  /\ ExactMatch(Cur, last.sender) = {}
  /\ AddressMatch(Cur, last.sender) = {}

\* The bootstrap connections, and whether Bootstrap went on to try candidates.
BootConns == {c \in ConnIds : conn[c].via = "bootstrap"}

TriedConnect == boot.called /\ boot.opened /\ ~(boot.off /\ boot.nat = "kSymmetric")

SuccessReports == {k \in 1..Len(boot.reports) : boot.reports[k].code = "kSuccess"}

\* C8: candidates are tried in list order, one at a time, the next one only after
\* the one before has failed; the first whose connect yields a valid peer id wins
\* and none is tried after it; on_bootstrap(Success, c) is reported once, with c the
\* candidate whose connect succeeded, also when candidates share a node id.
C8_BootstrapInOrder ==
  /\ \A k \in 1..Len(boot.attempts) : boot.attempts[k] = k
  /\ Cardinality({c \in BootConns : conn[c].state = "Pending" /\ conn[c].open}) <= 1
  /\ \A c \in BootConns : conn[c].state = "Pending" /\ conn[c].open =>
        conn[c].call = Len(boot.attempts)
  /\ Len(boot.succeeded) <= 1
  /\ boot.succeeded # <<>> => boot.attempts[Len(boot.attempts)] = boot.succeeded[1]
  /\ Cardinality(SuccessReports) <= 1
  /\ TriedConnect =>
        \A k \in SuccessReports :
          boot.succeeded # <<>> /\ boot.reports[k].contact = boot.list[boot.succeeded[1]]

\* Every candidate has failed and nothing is left to run.
AllCandidatesFailed ==
  /\ TriedConnect
  /\ strand = <<>>
  /\ \A c \in BootConns : conn[c].state = "Pending" /\ ~conn[c].open

\* C9: if every candidate fails, or the list is empty, on_bootstrap(NotConnectable,
\* null contact) is reported exactly once and no on_connection_added is fired.
C9_NotConnectable ==
  AllCandidatesFailed =>
    /\ boot.reports = <<[code |-> "kNotConnectable", contact |-> NullContact]>>
    /\ \A p \in NodeIds : \A k \in 1..Len(events[p]) : events[p][k].cb # "added"

\* Two candidates were connected to, both failed, and the report has been made.
C9_Witness == AllCandidatesFailed /\ Len(boot.connects) = 2 /\ boot.reports # <<>>

\* C10: once the multiplexer has opened, bootstrap_off_existing_connection with a
\* symmetric NAT type attempts no candidate and reports Success with a null
\* contact; in every other combination the candidates are attempted.
C10_SkipWhenSymmetric ==
  /\ boot.called /\ boot.opened /\ boot.off /\ boot.nat = "kSymmetric" =>
        /\ boot.attempts = <<>> /\ boot.connects = <<>> /\ AbsentConns(Cur) = ConnIds
        /\ IF strand = <<>>
           THEN boot.reports = <<[code |-> "kSuccess", contact |-> NullContact]>>
           ELSE boot.reports = <<>>
  /\ TriedConnect /\ boot.list # <<>> => boot.attempts # <<>>

\* Bootstrap off an existing connection behind symmetric NAT, with candidates,
\* has reported.
C10_Witness ==
  /\ boot.opened /\ boot.off /\ boot.nat = "kSymmetric" /\ Len(boot.list) = 2
  /\ boot.reports # <<>>

\* C11: when the multiplexer fails to open, Bootstrap reports the open error with
\* a null contact, once, on the strand, and changes nothing else: no callback is
\* installed, no ConnectionManager is constructed, dispatch is not started and no
\* candidate is attempted.
C11_OpenFailure ==
  boot.called /\ ~boot.opened =>
    /\ ~on_message_ /\ ~on_connection_added_ /\ ~on_connection_lost_
    /\ ~connection_manager_
    /\ ~mux.open /\ ~mux.dispatcher
    /\ boot.attempts = <<>> /\ boot.connects = <<>> /\ AbsentConns(Cur) = ConnIds
    /\ connections_ = {} /\ RegIds(Cur) = {}
    /\ IF strand = <<>>
       THEN boot.reports = <<[code |-> "kOpenFailed", contact |-> NullContact]>>
       ELSE boot.reports = <<>>

\* Bootstrap with two candidates failed to open the multiplexer and has reported.
C11_Witness == boot.called /\ ~boot.opened /\ Len(boot.list) = 2 /\ boot.reports # <<>>

\* The connections started for the k-th Transport::Connect call, and whether that
\* call is to make both the external and the local attempt.
AttemptsOf(k) == {c \in ConnIds : conn[c].via \in {"rv", "rv_ext"} /\ conn[c].call = k}

BothAttempts(pair) == IsValid(pair.external) /\ pair.local # pair.external

\* C12: with a valid external endpoint and local != external, DoConnect starts
\* the connect to external, and the connect to local starts only in the step in
\* which the external attempt reports success or failure; with external invalid or
\* local = external, one connect attempt is started and no other follows.
C12_RendezvousOrder ==
  /\ [][last'.op = "DoConnect" /\ mux.open =>
          \E c \in ConnIds :
            /\ Started(Cur, Cur') = {c}
            /\ LET pair == calls[conn'[c].call].pair
               IN conn'[c].ep = IF IsValid(pair.external) THEN pair.external ELSE pair.local]_vars
  /\ [][\A c \in Started(Cur, Cur') :
          conn'[c].via \in {"rv", "rv_ext"} /\ last'.op # "DoConnect" =>
            LET pair == calls[conn'[c].call].pair
                ext == last'.conn
            IN /\ BothAttempts(pair)
               /\ conn'[c].ep = pair.local
               /\ last'.op \in {"Connected", "ConnectFailed"}
               /\ conn[ext].call = conn'[c].call
               /\ conn[ext].ep = pair.external
               /\ conn[ext].state = "Pending"
               /\ AttemptsOf(conn'[c].call) = {ext}]_vars
  /\ [](\A k \in 1..Len(calls) :
          Cardinality(AttemptsOf(k)) <= IF BothAttempts(calls[k].pair) THEN 2 ELSE 1)

\* The external attempt of a call failed and the attempt to local was started.
C12_Witness ==
  \E c, d \in ConnIds :
    /\ c # d /\ {c, d} \subseteq AttemptsOf(1)
    /\ conn[c].ep = calls[1].pair.external /\ conn[c].state = "Pending" /\ ~conn[c].open
    /\ conn[d].ep = calls[1].pair.local /\ conn[d].open

\* C13: in a rendezvous connect that makes both attempts, the first attempt to
\* complete its handshake is passed to AddConnection and enters the connection
\* set; so does a successful external attempt.
C13_FirstSuccessAdded ==
  [][/\ last'.op = "Connected"
     /\ conn[last'.conn].via \in {"rv", "rv_ext"}
     /\ BothAttempts(calls[conn[last'.conn].call].pair)
     /\ AttemptsOf(conn[last'.conn].call) \cap connections_ = {}
     => /\ last'.res = "kSuccess"
        /\ last'.conn \in connections_']_vars

\* C14: DoConnect on a transport whose multiplexer is closed hands
\* failed_to_connect to the caller's handler in that same step, once, starts no
\* connect attempt, creates no connection and leaves the connection set, the
\* registry and the callbacks seen unchanged.
C14_ConnectWhenClosed ==
  [][last'.op = "DoConnect" /\ ~mux.open =>
       LET k == Head(strand).k
       IN /\ calls' = [calls EXCEPT ![k].results = Append(@, "failed_to_connect")]
          /\ calls[k].results = <<>>
          /\ Started(Cur, Cur') = {}
          /\ conn' = conn /\ connections_' = connections_ /\ sockets_' = sockets_
          /\ events' = events /\ mux' = mux]_vars

\* A first connect succeeded and, Close having been called, a second connect
\* found the multiplexer closed and has been refused.
C14_Witness ==
  /\ last.op = "DoConnect" /\ Len(calls) = 2 /\ closeCalls >= 1
  /\ calls[1].results = <<"success">>
  /\ calls[2].results = <<"failed_to_connect">>

\* The connections to peer_id announced by on_connection_added as not temporary
\* and still open.
Announced(peer_id) ==
  {c \in ConnIds : /\ conn[c].open
                   /\ \E k \in 1..Len(events[peer_id]) :
                        events[peer_id][k] = Event("added", c, FALSE, FALSE)}

\* C15: Transport::AddConnection fires on_connection_added exactly for a Temporary
\* connection (temporary = true, the set untouched) and for a connection the
\* ConnectionManager added (temporary = false); for InvalidConnection and
\* AlreadyExists it fires nothing; so of two connections racing to one peer only
\* the winner is announced.
C15_AddConnectionCallbacks ==
  /\ [][last'.op = "Connected" /\ last'.res # "notcalled" =>
          LET c == last'.conn
              peer_id == conn[c].peer
          IN /\ last'.res = "none" =>
                  /\ events' = [events EXCEPT ![peer_id] = Append(@, Event("added", c, TRUE, FALSE))]
                  /\ connections_' = connections_
             /\ last'.res = "kSuccess" =>
                  events' = [events EXCEPT ![peer_id] = Append(@, Event("added", c, FALSE, FALSE))]
             /\ last'.res \in {"kInvalidConnection", "kConnectionAlreadyExists"} =>
                  events' = events]_vars
  /\ [](\A peer_id \in NodeIds : Cardinality(Announced(peer_id)) <= 1)

\* Connection c went through add_connection while another connection to the same
\* peer, announced before it, had not been lost: c lost the add_connection race.
LostRace(c) ==
  LET e == events[conn[c].peer]
  IN \E i, j \in 1..Len(e) :
       /\ i < j
       /\ e[i].cb = "added" /\ ~e[i].temporary /\ e[i].conn # c
       /\ e[j].cb = "added" /\ ~e[j].temporary /\ e[j].conn = c
       /\ \A k \in i..j : ~(e[k].cb = "lost" /\ e[k].conn = e[i].conn)

\* C16: when a connection reports closure, Transport::RemoveConnection fires
\* nothing for a Duplicate connection and otherwise on_connection_lost once,
\* temporary exactly for a Temporary connection and timed_out exactly when the
\* close error was TimedOut; the loser of the add_connection race never produces
\* on_connection_lost.
C16_RemoveConnectionCallbacks ==
  /\ [][last'.op = "Dropped" =>
          LET c == last'.conn
              peer_id == conn[c].peer
          IN IF conn[c].state = "Duplicate"
             THEN events' = events
             ELSE events' = [events EXCEPT ![peer_id] =
                               Append(@, Event("lost", c, conn[c].state = "Temporary",
                                               last'.res = "kTimedOut"))]]_vars
  /\ [](\A c \in ConnIds :
          conn[c].state # "Absent" /\ LostRace(c) =>
            \A k \in 1..Len(events[conn[c].peer]) :
               ~(events[conn[c].peer][k].cb = "lost" /\ events[conn[c].peer][k].conn = c))

---------------------------------------------------------------------------
(* Teardown.  A handler on the strand copies a callback slot under          *)
(* callback_mutex_, releases the mutex and then invokes the copy, while     *)
(* Transport::Close clears the slots on the caller's thread: here a handler *)
(* runs up to its copy in one step and invokes the copy in a later one.     *)

\* The callbacks a handler fires on its way from s to r, each with its peer.
NewEvents(s, r) ==
  UNION {{<<p, r.events[p][k]>> : k \in (Len(s.events[p]) + 1)..Len(r.events[p])} : p \in NodeIds}

\* The handler that takes s to r has run up to the copy of its callback slot:
\* the call of local_callback is still to come, ahead of everything queued.
Copied(s, r) ==
  LET new == NewEvents(s, r)
  IN IF new = {} THEN r
     ELSE IF Cardinality(new) > 1 THEN Fail(r)
     ELSE LET n == CHOOSE n \in new : TRUE
          IN [r EXCEPT !.events = s.events,
                       !.strand = <<[Task("local_callback") EXCEPT !.peer = n[1], !.e = n[2]]>> \o @]

\* The handler running on the strand holds a copied callback it has yet to invoke.
Invoking == strand # <<>> /\ Head(strand).task = "local_callback"

\* local_callback(...): the copy is invoked, whatever the slot holds by now.
LocalCallback ==
  /\ Invoking
  /\ LET t == Head(strand)
     IN Becomes(Fire([Cur EXCEPT !.strand = Tail(strand)], t.peer, t.e),
                [Op("local_callback") EXCEPT !.conn = t.e.conn, !.peer = t.peer])

\* The strand runs the handler at its head, up to its copy of a slot.
StrandStepCopy ==
  /\ strand # <<>>
  /\ ~Invoking
  /\ LET t == Head(strand)
         s == [Cur EXCEPT !.strand = Tail(strand)]
     IN \E ord \in (IF t.task = "CloseLambda" /\ t.cm THEN Orderings(connections_) ELSE {<<>>}),
           id \in Draw(s) :
          Becomes(Copied(s, RunTask(s, t, ord, 0, id)), [Op(t.task) EXCEPT !.conn = t.conn])

\* The handshake of connection c completes: Transport::AddConnection up to its copy.
ConnectedCopy ==
  /\ mux.open
  /\ ~Invoking
  /\ \E c \in ConnIds, id \in Draw(Cur) :
       /\ conn[c].state = "Pending"
       /\ conn[c].open
       /\ conn[c].via # "bootstrap"
       /\ Becomes(Copied(Cur, HandshakeOk(Cur, c, NullEndpoint, 0, id)),
                  [Op("Connected") EXCEPT !.conn = c, !.peer = conn[c].peer])

\* An established connection reports closure: Transport::RemoveConnection up to
\* its copy.
DroppedCopy ==
  /\ ~Invoking
  /\ \E c \in ConnIds, timed_out \in BOOLEAN :
       /\ conn[c].open
       /\ conn[c].state \notin {"Absent", "Pending"}
       /\ Becomes(Copied(Cur, DoClose(Cur, c, timed_out)),
                  [Op("Dropped") EXCEPT !.conn = c, !.peer = conn[c].peer])

\* The values a read of on_message_ outside callback_mutex_ can give: the slot,
\* or what it held before a Transport::Close whose handler the strand has not
\* run yet and with which the read is therefore not ordered.
OnMessageRead ==
  {on_message_} \cup
  {boot.opened : i \in {j \in 1..Len(strand) : strand[j].task = "CloseLambda"}}

\* Data arrives on connection c: DefaultOnReceiveHandler up to its copy.
MessageArrivedCopy ==
  /\ mux.open
  /\ ~Invoking
  /\ \E c \in ConnIds, seen \in OnMessageRead :
       /\ conn[c].open
       /\ conn[c].connected
       /\ IsNormal(conn[c].state)
       /\ Cardinality(Messages(c)) < MaxMsgs
       /\ Becomes([Copied(Cur, DefaultOnReceiveHandler([Cur EXCEPT !.on_message_ = seen], c))
                     EXCEPT !.on_message_ = on_message_],
                  [Op("Message") EXCEPT !.conn = c, !.peer = conn[c].peer])

NextTeardown ==
  \/ CallBootstrap({<<>>}, {FALSE}, {TRUE})
  \/ CallConnect({2}, ClosePairs)
  \/ CallClose
  \/ StrandStepCopy
  \/ LocalCallback
  \/ ConnectedCopy
  \/ ~Invoking /\ ConnectFailed
  \/ DroppedCopy
  \/ MessageArrivedCopy

SpecTeardown == Init /\ [][NextTeardown]_vars

\* C17: once Transport::Close has returned, and until Bootstrap installs slots
\* again, no on_message, on_connection_added or on_connection_lost is invoked,
\* however the call interleaves with the handlers running on the strand.
C17_NoCallbackAfterClose == [][CloseInEffect => events' = events]_vars

\* What RemoteNatDetectionEndpoint(peer_id) can return once the bootstrap
\* connection has been through Transport::AddConnection.
NatDetectionEndpoints(s, peer_id) ==
  IF FindConnection(s, peer_id) = {} THEN {NullEndpoint}
  ELSE {s.conn[c].natdet : c \in FindConnection(s, peer_id)}

\* C18: when a bootstrap connection succeeds and the peer's remote NAT detection
\* endpoint is invalid, no ping is sent, nat_type is unchanged and the bootstrap
\* completion callback is invoked; when it is valid, one ping is sent and the
\* callback waits; when the ping's result is known, nat_type becomes Symmetric
\* exactly if the ping failed and the callback is invoked; nothing else changes
\* nat_type, and there is at most one ping and one completion callback.
C18_NatDetection ==
  /\ [][last'.op = "Connected" /\ conn[last'.conn].via = "bootstrap" =>
          \E nat_detection_endpoint \in NatDetectionEndpoints(Cur', last'.peer) :
            IF ~IsValid(nat_detection_endpoint)
            THEN /\ boot'.pings = boot.pings
                 /\ nat_type_' = nat_type_
                 /\ Len(boot'.reports) = Len(boot.reports) + 1
            ELSE /\ boot'.pings = Append(boot.pings, last'.peer)
                 /\ nat_type_' = nat_type_
                 /\ boot'.reports = boot.reports]_vars
  /\ [][last'.op \in {"Connected", "ConnectFailed"} /\ conn[last'.conn].via = "ping" =>
          /\ nat_type_' = IF last'.op = "ConnectFailed" THEN "kSymmetric" ELSE nat_type_
          /\ boot'.pings = boot.pings
          /\ Len(boot'.reports) = Len(boot.reports) + 1]_vars
  /\ [][nat_type_' # nat_type_ =>
          last'.op = "ConnectFailed" /\ conn[last'.conn].via = "ping"]_vars
  /\ [](Len(boot.pings) <= 1 /\ Len(boot.reports) <= 1)

\* The bootstrap connection succeeded, its peer gave a NAT detection endpoint,
\* the ping sent there failed: nat_type has turned Symmetric and the completion
\* callback has been invoked, once.
C18_Witness ==
  /\ last.op = "ConnectFailed" /\ conn[last.conn].via = "ping"
  /\ boot.pings # <<>> /\ boot.nat # "kSymmetric" /\ nat_type_ = "kSymmetric"
  /\ Len(boot.reports) = 1 /\ boot.reports[1].code = "kSuccess"

\* C19: CloseConnection(peer_id) returns true and gives the strand a close of a
\* connection to peer_id when connections_ holds one, and returns false and gives
\* the strand nothing when it holds none; the call removes nothing from
\* connections_: an entry leaves only when its connection reports closure.
C19_CloseConnection ==
  /\ [][last'.op = "CloseConnection" =>
          /\ connections_' = connections_ /\ conn' = conn /\ events' = events
          /\ IF FindConnection(Cur, last'.peer) # {}
             THEN /\ requests' = Append(requests, Request("CloseConnection", last'.peer, TRUE))
                  /\ last'.conn \in FindConnection(Cur, last'.peer)
                  /\ strand' = Append(strand, [Task("ConnClose") EXCEPT !.conn = last'.conn])
             ELSE /\ requests' = Append(requests, Request("CloseConnection", last'.peer, FALSE))
                  /\ strand' = strand]_vars
  /\ [][\A c \in connections_ \ connections_' :
          /\ last'.op \in {"ConnClose", "Dropped"} /\ last'.conn = c
          /\ conn[c].open /\ ~conn'[c].open]_vars

\* CloseConnection found the connection and returned true, and the close it
\* scheduled has run: only now has the connection left the set.
C19_Witness ==
  /\ last.op = "ConnClose" /\ ~conn[last.conn].open /\ last.conn \notin connections_
  /\ IsNormal(conn[last.conn].state)
  /\ \E k \in 1..Len(requests) :
       requests[k] = Request("CloseConnection", conn[last.conn].peer, TRUE)
  /\ \E p \in NodeIds : \E k \in 1..Len(events[p]) :
       events[p][k].cb = "lost" /\ events[p][k].conn = last.conn

\* C20: Send(peer_id, message, on_sent) returns false, gives the strand nothing
\* and never has on_sent invoked when connections_ holds no connection to
\* peer_id; otherwise it returns true and gives the strand StartSending(message,
\* on_sent) on a connection to peer_id; connections_ is unchanged either way.
C20_Send ==
  /\ [][last'.op = "Send" =>
          /\ connections_' = connections_ /\ conn' = conn /\ events' = events
          /\ IF FindConnection(Cur, last'.peer) # {}
             THEN /\ requests' = Append(requests, Request("Send", last'.peer, TRUE))
                  /\ last'.conn \in FindConnection(Cur, last'.peer)
                  /\ strand' = Append(strand, [Task("StartSending") EXCEPT
                                                 !.conn = last'.conn, !.k = Len(requests')])
             ELSE /\ requests' = Append(requests, Request("Send", last'.peer, FALSE))
                  /\ strand' = strand]_vars
  /\ [](\A k \in 1..Len(requests) : requests[k].on_sent => requests[k].result)

\* Two sends, one to a peer with a connection in the set and one to a peer
\* without: the first has had on_sent invoked, the second returned false.
C20_Witness ==
  /\ last.op = "StartSending" /\ strand = <<>>
  /\ \E j, k \in 1..Len(requests) :
       /\ requests[j] = [Request("Send", 2, TRUE) EXCEPT !.on_sent = TRUE]
       /\ requests[k] = Request("Send", 3, FALSE)
       /\ FindConnection(Cur, 2) # {}

\* C21: MakeConnectionPermanent(peer_id, validated, peer_endpoint) returns false
\* and changes no connection when connections_ holds no connection to peer_id;
\* otherwise it returns true and that connection becomes Permanent, nothing else
\* changing; peer_endpoint comes back as the connection's peer endpoint when that
\* is not private, and as the null endpoint in every other case.
C21_MakeConnectionPermanent ==
  [][last'.op = "MakeConnectionPermanent" =>
       /\ connections_' = connections_ /\ sockets_' = sockets_ /\ events' = events
       /\ strand' = strand
       /\ IF FindConnection(Cur, last'.peer) = {}
          THEN /\ last'.res = "false"
               /\ conn' = conn
               /\ last'.peer_endpoint = NullEndpoint
          ELSE /\ last'.res = "true"
               /\ last'.conn \in FindConnection(Cur, last'.peer)
               /\ conn' = [conn EXCEPT ![last'.conn].state = "Permanent"]
               /\ last'.peer_endpoint = IF OnPrivateNetwork(conn[last'.conn].ep)
                                        THEN NullEndpoint ELSE conn[last'.conn].ep]_vars

\* A connection to a public endpoint has just been made Permanent and its
\* endpoint handed back, after a call for a peer with no connection.
C21_Witness ==
  /\ last.op = "MakeConnectionPermanent" /\ last.res = "true"
  /\ conn[last.conn].state = "Permanent" /\ last.peer_endpoint = conn[last.conn].ep
  /\ IsValid(last.peer_endpoint)
  /\ requests[1] = Request("MakeConnectionPermanent", 3, FALSE)

\* C22: connections_ never holds more normal connections than the cap, whatever
\* connects, inbound handshakes and AddConnection calls have happened.
C22_MaxConnections ==
  Cardinality({c \in connections_ : IsNormal(conn[c].state)}) <= kMaxConnections

\* C23: whatever the registry holds, an empty registry included, a handshake
\* with destination id 0 and a reason other than Normal goes to HandlePingFrom
\* and to no socket when no registered socket has the sender as peer endpoint,
\* and goes to such a socket, HandlePingFrom not running, when one has.
C23_PingRouting ==
  [][last'.op = "GetSocket" /\ last'.reason \in Reasons \ {"Normal"} =>
       IF ExactMatch(Cur, last'.sender) = {}
       THEN last'.hpf /\ last'.sock = 0
       ELSE ~last'.hpf /\ last'.sock \in ExactMatch(Cur, last'.sender)]_vars

\* C24: HandlePingFrom, given a valid sender and a node id other than this
\* node's, does one of two things.  When connections_ holds a connection to the
\* node and the reason is not BootstrapAndDrop, it closes that connection and
\* constructs none.  Otherwise it constructs one connection, to (node id,
\* sender), with lifespan zero for BootstrapAndDrop and the bootstrap lifespan
\* for any other reason, and leaves every existing connection as it was.
C24_HandlePingFrom ==
  [][last'.op = "GetSocket" /\ last'.hpf /\ IsValid(last'.sender) /\ last'.peer # kThisNodeId =>
       IF FindConnection(Cur, last'.peer) # {} /\ last'.reason # "BootstrapAndDrop"
       THEN /\ Started(Cur, Cur') = {}
            /\ \E c \in FindConnection(Cur, last'.peer) :
                 /\ conn[c].open /\ ~conn'[c].open
                 /\ \A d \in ConnIds \ {c} : conn'[d] = conn[d]
       ELSE /\ connections_' = connections_
            /\ \E c \in ConnIds :
                 /\ Started(Cur, Cur') = {c}
                 /\ conn'[c].state = "Pending" /\ conn'[c].open
                 /\ conn'[c].peer = last'.peer /\ conn'[c].ep = last'.sender
                 /\ conn'[c].lifespan = IF last'.reason = "BootstrapAndDrop" THEN "zero"
                                        ELSE "bootstrap_connection_lifespan"
                 /\ \A d \in ConnIds \ {c} : conn'[d] = conn[d]]_vars

\* A ping from a peer this node was connected to has closed that connection,
\* and no connection has been constructed for it.
C24_Witness ==
  /\ last.op = "GetSocket" /\ last.hpf /\ last.reason = "Ping"
  /\ \E c \in ConnIds :
       /\ conn[c].peer = last.peer /\ IsNormal(conn[c].state) /\ ~conn[c].open
       /\ c \notin connections_
       /\ \A d \in ConnIds \ {c} : conn[d].state = "Absent"

\* C25: HandlePingFrom drops a handshake that carries this node's own id, and a
\* handshake from an invalid sender: no connection is constructed, none is
\* closed, connections_ and the socket registry stay as they were and no
\* callback fires.
C25_PingDropped ==
  [][last'.op = "GetSocket" /\ last'.hpf
       /\ (last'.peer = kThisNodeId \/ ~IsValid(last'.sender)) =>
       /\ conn' = conn /\ connections_' = connections_ /\ sockets_' = sockets_
       /\ events' = events /\ strand' = strand]_vars

\* A join request carrying this node's own id has come from a valid sender
\* while the set held a connection, and has been through HandlePingFrom.
C25_Witness ==
  /\ last.op = "GetSocket" /\ last.hpf /\ last.peer = kThisNodeId /\ IsValid(last.sender)
  /\ connections_ # {}

\* C26: GetSocket calls UpdatePeerEndpoint only on a registered socket whose peer
\* endpoint is then public and which is not connected, and only for a handshake
\* with destination id 0 and reason Normal whose sender is the peer endpoint of
\* no registered socket; every other socket, and every socket with a private
\* peer endpoint or already connected, keeps its peer endpoint across a dispatch.
C26_UpdateOnlyWhenSafe ==
  [][last'.op = "GetSocket" =>
       /\ \A c \in ConnIds :
            conn'[c].ep # conn[c].ep \/ (\E k \in 1..Len(last'.upd) : last'.upd[k] = c) =>
              /\ c \in {sockets_[i] : i \in RegIds(Cur)}
              /\ ~OnPrivateNetwork(conn[c].ep) /\ ~conn[c].connected
              /\ last'.reason = "Normal" /\ last'.id = 0
              /\ ExactMatch(Cur, last'.sender) = {}
              /\ c = last'.sock
              /\ conn'[c].ep = last'.sender
       /\ Len(last'.upd) <= 1]_vars

\* A handshake has had a socket's peer endpoint revised while another registered
\* socket, already connected, kept its own.
C26_Witness ==
  /\ last.op = "GetSocket" /\ Len(last.upd) = 1
  /\ conn[last.upd[1]].ep = last.sender /\ conn[last.upd[1]].guessed # 0
  /\ \E d \in ConnIds \ {last.upd[1]} :
       /\ conn[d].connected /\ conn[d].open /\ conn[d].ep.addr = last.sender.addr
       /\ conn[d].ep # last.sender

\* C27: ConnectionManager::Close detaches the manager from the dispatcher and
\* gives the strand one close for each connection connections_ holds at that
\* moment, and leaves connections_ exactly as it was; an entry leaves
\* connections_ only when its connection later reports closure.
C27_TeardownKeepsSet ==
  /\ [][last'.op = "CloseLambda" /\ Head(strand).cm =>
          /\ connections_' = connections_ /\ conn' = conn /\ events' = events
          /\ ~mux'.dispatcher
          /\ \E ord \in Orderings(connections_) :
               strand' = Tail(strand) \o
                         [i \in 1..Len(ord) |-> [Task("ConnClose") EXCEPT !.conn = ord[i]]]]_vars
  /\ [][\A c \in connections_ \ connections_' :
          /\ last'.op \in {"ConnClose", "Dropped"} /\ last'.conn = c
          /\ ~conn'[c].open]_vars

\* The teardown has just run with two connections in the set: both are still
\* there, each with its close waiting on the strand.
C27_Witness ==
  /\ last.op = "CloseLambda" /\ ~mux.dispatcher
  /\ Cardinality(connections_) = 2
  /\ \A c \in connections_ :
       conn[c].open /\ \E k \in 1..Len(strand) : strand[k] = [Task("ConnClose") EXCEPT !.conn = c]

\* Calls into user code, and the methods of a Connection that change its state.
WorkOnConnection ==
  {"Connection::Close", "Connection::StartSending", "Connection::MakePermanent",
   "on_message", "on_connection_added", "on_connection_lost", "message_sent_functor"}

\* C28: whoever holds mutex_ is not calling into user code or into a method
\* that changes a Connection: CloseConnection, Send, MakeConnectionPermanent,
\* HandlePingFrom and the teardown release the mutex before that work runs.
C28_NoWorkUnderMutex ==
  \A k \in 1..Len(mutex_) : mutex_[k] \notin WorkOnConnection

\* The k-th Connect call has nothing left to do: DoConnect has run for it and
\* none of its connections is still in its handshake.
Settled(k) ==
  /\ \A i \in 1..Len(strand) : ~(strand[i].task = "DoConnect" /\ strand[i].k = k)
  /\ \A c \in ConnIds :
       conn[c].via \in {"rv", "rv_ext"} /\ conn[c].call = k => conn[c].state # "Pending"

=============================================================================
